---- MODULE Spec2Model ----
(***************************************************************************)
(* efi-runner: main (src/src/main.rs) validates the command line, calls    *)
(* Hypervisor::build (src/src/hypervisor.rs), which drives the compute     *)
(* service through create -> get properties -> start, one async_operation  *)
(* round trip each, then proxy_serial opens the COM1 named pipe and spawns *)
(* the terminal relay.  The service's completion callback (_handler) runs  *)
(* on a service-owned thread and is modelled as its own action.            *)
(***************************************************************************)
EXTENDS Integers, Sequences, FiniteSets, TLC

\* ------------------------------------------------------------------ bounds
MaxDisks == 2
MaxAttempts == 3
MaxOps == 3

\* --------------------------------------------------------------- constants
NotReadyErr == 231
SleepMs == 50
ExitFailure == 1
\* exit status of a Rust process whose main thread panicked
ExitPanic == 101
ExitReturn == 0
\* stands for std::time::Duration::MAX: larger than any time the model lets pass
DurationMAX == 1000000

\* ResultCode values the service can report, besides success.
ErrCodes == {"Fail", "Unexpected"}
\* Response documents: JSON with a string RuntimeId, JSON without one, not JSON.
Resp == {"json_id", "json_noid", "text"}
\* OperationResult as seen by _handler: (response, err).
Outcomes == [code : {"Success"} \cup ErrCodes, resp : Resp]
\* raw_os_error values of a failed named-pipe open.
OpenErrs == {NotReadyErr, 2, 5}
Steps == {"create", "identify", "start"}
\* the name main passes to Hypervisor::build
MainVmName == "rust-vm"
\* VM names build is checked with
Names == {MainVmName, "a", ""}
\* a code unit of a path that is no valid Unicode (an unpaired surrogate), and
\* the character to_string_lossy puts in its place (U+FFFD)
Surrogate == "<D800>"
Replacement == "<FFFD>"
\* canonical paths of existing files, as sequences of code units
CanonPaths == {<<"C", ":", "\\", "a">>, <<"C", ":", "\\", "b">>,
               <<"C", ":", "\\", Surrogate>>}

VARIABLES
    pc,             \* position of main / build / proxy_serial: <<unit, phase>>
    alive,          \* the process has not exited
    exitCode,       \* exit code, meaningful once ~alive
    efi_is_file,    \* args.efi_file.is_file()
    disks,          \* is_file() of each --disks entry, in order
    diskIdx,        \* loop index of the disk validation loop
    name,           \* build's `name` argument
    disk_paths,     \* cliargs.disks as build receives them (canonical paths)
    com1_pipe,      \* build's com1_pipe string
    descriptor,     \* the ComputeSystem build serializes into compute_config
    ops,            \* oneshot channel + operation handle per async_operation call
    cur,            \* index in ops of build's current `operation`
    syncRes,        \* return value of the service primitive being called
    handle,         \* build's HcsSystemHandle is set
    unique_id,      \* build's unique_id is set
    issued,         \* per step: number of calls of the service primitive
    recvd,          \* per step: outcomes the orchestrator got from .await
    syncRet,        \* per step: values the service primitive returned to build
    attempts,       \* ClientOptions::open calls (saturating at MaxAttempts)
    sinceOpen,      \* ms slept since the last open attempt
    lastGap,        \* ms slept between the last two open attempts (0: fewer than two)
    opened,         \* results of the open attempts so far (0: opened)
    openErr,        \* os error of the last open attempt (0: opened)
    pipeOpened,     \* pipe name of the last ClientOptions::open call
    relay,          \* the spawned copy_bidirectional task
    spawned,        \* number of tokio::spawn calls
    buildResult,    \* "running", "Ok" or the ResultCode of Err
    stderr          \* messages written so far

vars == <<pc, alive, exitCode, efi_is_file, disks, diskIdx, name, disk_paths,
          com1_pipe, descriptor, ops, cur, syncRes,
          handle, unique_id, issued, recvd, syncRet, attempts, sinceOpen,
          lastGap, opened, openErr, pipeOpened, relay, spawned, buildResult, stderr>>

descVars == <<name, disk_paths, com1_pipe, descriptor>>
mainVars == <<efi_is_file, disks, diskIdx, descVars>>
proxyVars == <<attempts, sinceOpen, lastGap, opened, openErr, pipeOpened, relay, spawned>>
buildVars == <<cur, syncRes, handle, unique_id, issued, recvd, syncRet>>

\* ------------------------------------------------------------ pure helpers
Min(a, b) == IF a < b THEN a ELSE b

BoolSeqs(n) == UNION {[1..k -> BOOLEAN] : k \in 0..n}

\* sequences over S of length at most n
SeqsUpTo(S, n) == UNION {[1..k -> S] : k \in 0..n}

\* format!("\\\\.\\pipe\\vm_{name}_com1")
Com1Pipe_noName(n) == "\\\\.\\pipe\\vm_com1"
Com1Pipe(n) == "\\\\.\\pipe\\vm_" \o n \o "_com1"

\* disk.to_string_lossy().to_string(): invalid code units become U+FFFD
ToStringLossy(p) == [k \in DOMAIN p |-> IF p[k] = Surrogate THEN Replacement ELSE p[k]]

\* format!("disk-{index}")
DiskKey_fixed(index) == "disk-0"
DiskKey(index) == "disk-" \o ToString(index)

\* Scsi { attachments: [(0u32, Attachment { VirtualDisk, path, .. })] }
Scsi(disk) ==
    [attachments |-> [a \in {0} |->
        [attachment_type |-> "VirtualDisk", path |-> ToStringLossy(disk)]]]

\* cliargs.disks.iter().enumerate().map(|(index, disk)| (key, Scsi)).collect()
ScsiMap(dpaths) ==
    LET keys == {DiskKey(i) : i \in 0..(Len(dpaths) - 1)}
        last(k) == CHOOSE i \in 0..(Len(dpaths) - 1) :
                      /\ DiskKey(i) = k
                      /\ \A j \in 0..(Len(dpaths) - 1) : DiskKey(j) = k => j <= i
    IN [k \in keys |-> Scsi(dpaths[last(k) + 1])]

\* the fields of ComputeSystem that name the VM, its COM ports and its disks
ComputeSystem(n, pipe, dpaths) ==
    [owner |-> n,
     com_ports |-> [port \in {0} |-> [named_pipe |-> pipe, optimize_for_debugger |-> FALSE]],
     scsi |-> ScsiMap(dpaths)]

\* no descriptor built yet
NoDescriptor == [owner |-> "", com_ports |-> <<>>, scsi |-> <<>>]

\* serde_json::from_str::<Value>(response) succeeds
Decodes(resp) == resp \in {"json_id", "json_noid"}

\* response["RuntimeId"].as_str() is Some
HasRuntimeId_any(resp) == TRUE
HasRuntimeId(resp) == resp = "json_id"

\* match err { Ok(_) => Ok(response), Err(code) => Err((code, response)) }
IsErr_never(out) == FALSE
IsErr(out) == out.code # "Success"

\* Err(e) if e.raw_os_error() == Some(231i32) => ()
IsTransient_never(e) == FALSE
IsTransient(e) == e = NotReadyErr

\* .map_err(|e| { eprintln!(..); ResultCode::Unexpected })
MapProxyErr_ok(e) == "Ok"
MapProxyErr(e) == "Unexpected"

\* tokio::time::sleep(d) completes after d; Duration::MAX never elapses
TimerFires_always(d) == TRUE
TimerFires(d) == d < DurationMAX

\* the context pointer handed to create_operation is this operation's own tx
ContextOf_first(i) == 1
ContextOf(i) == i

\* the step that follows a step of build
NextPc(s) ==
    CASE s = "create" -> <<"identify", "alloc">>
      [] s = "identify" -> <<"start", "alloc">>
      [] s = "start" -> <<"proxy", "open">>

\* ---------------------------------------------------------- Operation Bridge
\* what becomes of tx when async_operation returns: transmuted into the context
\* pointer it is owned by the callback ("held"); a tx that went out of scope
\* would be "dropped"
TxAfterAlloc_dropped == "dropped"
TxAfterAlloc == "held"

\* let (tx, rx) = oneshot::channel(); create_operation(transmute(tx), _handler)
\* returned r: Ok(handle) or Err(code)
NewOp(s, r) ==
    [step |-> s,
     alloc |-> r,                   \* what create_operation returned
     handle |-> r = "Ok",           \* create_operation returned a handle
     tx |-> TxAfterAlloc,           \* held | consumed | dropped
     svc |-> "idle",                \* idle | pending | done, at the service
     result |-> <<>>,               \* what get_operation_result returned
     callbacks |-> 0,               \* _handler invocations
     closed |-> 0,                  \* close_operation calls on the handle
     consumed |-> 0,                \* times the tx was consumed by send
     slot |-> <<>>,                 \* value held by the oneshot channel
     rx |-> IF r = "Ok" THEN "alive" ELSE "dropped",
     got |-> <<>>]                  \* outcomes the awaitable resolved with

\* sender.send(v): stores v unless the receiver is gone; consumes the sender
Send(os, j, out) ==
    [os EXCEPT ![j] = [@ EXCEPT
        !.consumed = @ + 1,
        !.tx = "consumed",
        !.slot = IF os[j].rx = "alive" THEN Append(@, out) ELSE @]]

\* _handler(operation, context)
HandlerEffect(os, i, out) ==
    Send([os EXCEPT ![i] = [@ EXCEPT
            !.svc = "done",
            !.result = <<out>>,
            !.callbacks = @ + 1,
            !.closed = @ + 1]],
         ContextOf(i), out)

\* rx.await is ready: a value was sent, or the sender was dropped
Resolved(o) == o.rx = "alive" /\ (Len(o.slot) > 0 \/ o.tx = "dropped")

\* rx.await.unwrap_unchecked(): the value sent; on a closed channel without a
\* value (RecvError) unwrap_unchecked is undefined behaviour: any value
AwaitValues(o) == IF Len(o.slot) > 0 THEN {Head(o.slot)} ELSE Outcomes

\* rx.await yields out and the future is dropped
Receive(os, i, out) ==
    [os EXCEPT ![i] = [@ EXCEPT
        !.rx = "received",
        !.got = Append(@, out),
        !.slot = IF Len(@) > 0 THEN Tail(@) ELSE @]]

\* the pending future (and with it rx) is dropped without being resolved
DropRx(os, i) == [os EXCEPT ![i] = [@ EXCEPT !.rx = "dropped"]]

\* ------------------------------------------------------------------- Init
Init ==
    /\ pc = <<"main", "efi">>
    /\ alive = TRUE
    /\ exitCode = 0
    /\ efi_is_file \in BOOLEAN
    /\ disks \in BoolSeqs(MaxDisks)
    /\ diskIdx = 1
    /\ name = ""
    /\ disk_paths = <<>>
    /\ com1_pipe = ""
    /\ descriptor = NoDescriptor
    /\ ops = <<>>
    /\ cur = 0
    /\ syncRes = "none"
    /\ handle = FALSE
    /\ unique_id = FALSE
    /\ issued = [s \in Steps |-> 0]
    /\ recvd = [s \in Steps |-> <<>>]
    /\ syncRet = [s \in Steps |-> <<>>]
    /\ attempts = 0
    /\ sinceOpen = 0
    /\ lastGap = 0
    /\ opened = {}
    /\ openErr = 0
    /\ pipeOpened = ""
    /\ relay = "none"
    /\ spawned = 0
    /\ buildResult = "running"
    /\ stderr = {}

\* std::process::exit(code), a panic, or main returning
Exit(code) ==
    /\ alive' = FALSE
    /\ exitCode' = code
    /\ pc' = <<"exit", "done">>

\* ------------------------------------------------------------------- main
MainCheckEfi ==
    /\ alive /\ pc = <<"main", "efi">>
    /\ IF ~efi_is_file
         THEN /\ stderr' = stderr \cup {"EFI_FILE is not a file!"}
              /\ Exit(ExitFailure)
         ELSE /\ pc' = <<"main", "disks">>
              /\ UNCHANGED <<alive, exitCode, stderr>>
    /\ UNCHANGED <<mainVars, ops, buildVars, proxyVars, buildResult>>

MainCheckDisk ==
    /\ alive /\ pc = <<"main", "disks">>
    /\ diskIdx <= Len(disks)
    /\ IF ~disks[diskIdx]
         THEN /\ stderr' = stderr \cup {"VHD is not a file!"}
              /\ Exit(ExitFailure)
              /\ UNCHANGED diskIdx
         ELSE /\ diskIdx' = diskIdx + 1
              /\ UNCHANGED <<pc, alive, exitCode, stderr>>
    /\ UNCHANGED <<efi_is_file, disks, descVars, ops, buildVars, proxyVars, buildResult>>

\* dunce::canonicalize of the paths, then Hypervisor::build("rust-vm", args)
MainCallBuild ==
    /\ alive /\ pc = <<"main", "disks">>
    /\ diskIdx > Len(disks)
    /\ name' = MainVmName
    /\ disk_paths' \in [1..Len(disks) -> CanonPaths]
    /\ pc' = <<"build", "config">>
    /\ UNCHANGED <<alive, exitCode, efi_is_file, disks, diskIdx, com1_pipe,
                   descriptor, ops, buildVars, proxyVars, buildResult, stderr>>

\* mutant: a failed step restarts the launch sequence instead of returning
ReturnErr_retry(code) ==
    /\ buildResult' = buildResult
    /\ pc' = <<"create", "alloc">>

\* build returned Err(code) to main
ReturnErr(code) ==
    /\ buildResult' = code
    /\ pc' = <<"main", "check">>

MainCheck ==
    /\ alive /\ pc = <<"main", "check">>
    /\ IF buildResult # "Ok"
         THEN /\ stderr' = stderr \cup {"failed to make hypervisor"}
              /\ Exit(ExitFailure)
         ELSE /\ pc' = <<"main", "sleep">>
              /\ UNCHANGED <<alive, exitCode, stderr>>
    /\ UNCHANGED <<mainVars, ops, buildVars, proxyVars, buildResult>>

\* ------------------------------------------------------- Hypervisor::build
\* com1_pipe and compute_config are built from name and cliargs
BuildConfig ==
    /\ alive /\ pc = <<"build", "config">>
    /\ com1_pipe' = Com1Pipe(name)
    /\ descriptor' = ComputeSystem(name, Com1Pipe(name), disk_paths)
    /\ pc' = <<"create", "alloc">>
    /\ UNCHANGED <<alive, exitCode, efi_is_file, disks, diskIdx, name, disk_paths,
                   ops, buildVars, proxyVars, buildResult, stderr>>

\* let operation = async_operation()?;
AsyncOperation(s) ==
    /\ alive /\ pc = <<s, "alloc">>
    /\ \E r \in {"Ok"} \cup ErrCodes :
         /\ ops' = Append(ops, NewOp(s, r))
         /\ IF r = "Ok"
              THEN /\ cur' = Len(ops) + 1
                   /\ pc' = <<s, "call">>
                   /\ UNCHANGED buildResult
              ELSE /\ ReturnErr(r)
                   /\ UNCHANGED cur
    /\ UNCHANGED <<alive, exitCode, mainVars, syncRes, handle, unique_id, issued,
                   recvd, syncRet, proxyVars, stderr>>

\* the service primitive is entered with operation.0; the service either starts
\* the operation (its callback will be invoked) or refuses it synchronously
ServiceCall(s) ==
    /\ alive /\ pc = <<s, "call">>
    /\ issued' = [issued EXCEPT ![s] = @ + 1]
    /\ \E r \in {"Ok"} \cup ErrCodes, tracked \in BOOLEAN :
         /\ r = "Ok" => tracked
         /\ syncRes' = r
         /\ ops' = [ops EXCEPT ![cur].svc = IF tracked THEN "pending" ELSE "idle"]
    /\ pc' = <<s, "ret">>
    /\ UNCHANGED <<alive, exitCode, mainVars, cur, handle, unique_id, recvd,
                   syncRet, proxyVars, buildResult, stderr>>

\* the primitive returns to build: `?` on its HcsResult
ServiceReturn(s) ==
    /\ alive /\ pc = <<s, "ret">>
    /\ IF syncRes # "Ok"
         THEN /\ ReturnErr(syncRes)
              /\ ops' = DropRx(ops, cur)
              /\ UNCHANGED handle
         ELSE /\ pc' = <<s, "await">>
              /\ handle' = (handle \/ s = "create")
              /\ UNCHANGED <<ops, buildResult>>
    /\ syncRes' = "none"
    /\ syncRet' = [syncRet EXCEPT ![s] = Append(@, syncRes)]
    /\ UNCHANGED <<alive, exitCode, mainVars, cur, unique_id, issued, recvd,
                   proxyVars, stderr>>

\* operation.1.await.map_err(..)? and, for identify, the parse of the response
Await(s) ==
    /\ alive /\ pc = <<s, "await">>
    /\ Resolved(ops[cur])
    /\ \E out \in AwaitValues(ops[cur]) :
         /\ ops' = Receive(ops, cur, out)
         /\ recvd' = [recvd EXCEPT ![s] = Append(@, out)]
         /\ IF IsErr(out)
              THEN /\ ReturnErr(out.code)
                   /\ stderr' = IF s # "identify" /\ Decodes(out.resp)
                                  THEN stderr \cup {"diagnostic"} ELSE stderr
                   /\ UNCHANGED <<alive, exitCode, unique_id>>
              ELSE IF s = "identify" /\ ~(Decodes(out.resp) /\ HasRuntimeId(out.resp))
              THEN /\ Exit(ExitPanic)
                   /\ UNCHANGED <<buildResult, stderr, unique_id>>
              ELSE /\ pc' = NextPc(s)
                   /\ unique_id' = (unique_id \/ s = "identify")
                   /\ UNCHANGED <<alive, exitCode, buildResult, stderr>>
    /\ UNCHANGED <<mainVars, cur, syncRes, handle, issued, syncRet, proxyVars>>

\* mutant: the HcsResult of async_operation is not checked before the call
AllocUnchecked(s) ==
    /\ alive /\ pc = <<s, "alloc">>
    /\ \E r \in {"Ok"} \cup ErrCodes : ops' = Append(ops, NewOp(s, r))
    /\ cur' = Len(ops) + 1
    /\ pc' = <<s, "call">>
    /\ UNCHANGED <<alive, exitCode, mainVars, syncRes, handle, unique_id, issued,
                   recvd, syncRet, proxyVars, buildResult, stderr>>

\* mutant: the pending future of step s is dropped instead of awaited
AwaitSkipped(s) ==
    /\ alive /\ pc = <<s, "await">>
    /\ ops' = DropRx(ops, cur)
    /\ pc' = NextPc(s)
    /\ UNCHANGED <<alive, exitCode, mainVars, buildVars, proxyVars, buildResult, stderr>>

\* mutant: the HcsResult of the primitive of step s is discarded (no `?`)
ReturnIgnored(s) ==
    /\ alive /\ pc = <<s, "ret">>
    /\ pc' = <<s, "await">>
    /\ syncRes' = "none"
    /\ syncRet' = [syncRet EXCEPT ![s] = Append(@, syncRes)]
    /\ UNCHANGED <<alive, exitCode, mainVars, ops, cur, handle, unique_id, issued,
                   recvd, proxyVars, buildResult, stderr>>

CreateAwait_skip == AwaitSkipped("create")
StartAlloc_unchecked == AllocUnchecked("start")
IdentifyReturn_ignore == ReturnIgnored("identify")
StartAwait_skip == AwaitSkipped("start")

\* lines 111-118: construct the virtual machine
CreateAlloc == AsyncOperation("create")
CreateCall == ServiceCall("create")
CreateReturn == ServiceReturn("create")
CreateAwait == Await("create")
\* lines 121-125: get the current runtime id
IdentifyAlloc == AsyncOperation("identify")
IdentifyCall == ServiceCall("identify")
IdentifyReturn == ServiceReturn("identify")
IdentifyAwait == Await("identify")
\* lines 128-135: start the virtual machine
StartAlloc == AsyncOperation("start")
StartCall == ServiceCall("start")
StartReturn == ServiceReturn("start")
StartAwait == Await("start")

\* ------------------------------------------------- service callback thread
\* mutant: the result of sender.send is unwrapped, so a failed publish panics
Handler_unwrapSend(i) ==
    /\ alive
    /\ ops[i].svc = "pending"
    /\ \E out \in Outcomes : ops' = HandlerEffect(ops, i, out)
    /\ IF ops[ContextOf(i)].rx = "alive"
         THEN UNCHANGED <<pc, alive, exitCode>>
         ELSE Exit(ExitPanic)
    /\ UNCHANGED <<mainVars, buildVars, proxyVars, buildResult, stderr>>

\* _handler runs once for an operation the service started
Handler(i) ==
    /\ alive
    /\ ops[i].svc = "pending"
    /\ \E out \in Outcomes : ops' = HandlerEffect(ops, i, out)
    /\ UNCHANGED <<pc, alive, exitCode, mainVars, buildVars, proxyVars,
                   buildResult, stderr>>

ServiceCallback == \E i \in 1..Len(ops) : Handler(i)

\* ------------------------------------------------------------ proxy_serial
\* one iteration of the open loop
ProxyOpen ==
    /\ alive /\ pc = <<"proxy", "open">>
    /\ attempts' = Min(attempts + 1, MaxAttempts)
    /\ pipeOpened' = com1_pipe
    /\ lastGap' = IF attempts > 0 THEN sinceOpen ELSE lastGap
    /\ sinceOpen' = 0
    /\ \E e \in {0} \cup OpenErrs :
         /\ openErr' = e
         /\ opened' = opened \cup {e}
         /\ IF e = 0
              THEN /\ pc' = <<"proxy", "spawn">>
                   /\ UNCHANGED <<buildResult, stderr>>
              ELSE IF IsTransient(e)
              THEN /\ pc' = <<"proxy", "sleep">>
                   /\ UNCHANGED <<buildResult, stderr>>
              ELSE /\ ReturnErr(MapProxyErr(e))
                   /\ stderr' = stderr \cup {"Failed to open terminal"}
    /\ UNCHANGED <<alive, exitCode, mainVars, ops, buildVars, relay, spawned>>

\* the duration of the tokio::time::sleep the task at pc is suspended on
SleepDuration(p) == IF p = <<"proxy", "sleep">> THEN SleepMs ELSE DurationMAX

\* a tokio::time::sleep(..).await completes: proxy_serial's retry delay resumes
\* the open loop; main's sleep(Duration::MAX) would let main return
Sleep ==
    /\ alive /\ pc \in {<<"proxy", "sleep">>, <<"main", "sleep">>}
    /\ TimerFires(SleepDuration(pc))
    /\ IF pc = <<"proxy", "sleep">>
         THEN /\ sinceOpen' = sinceOpen + SleepMs
              /\ pc' = <<"proxy", "open">>
              /\ UNCHANGED <<alive, exitCode>>
         ELSE /\ Exit(ExitReturn)
              /\ UNCHANGED sinceOpen
    /\ UNCHANGED <<mainVars, ops, buildVars, attempts, lastGap,
                   opened, openErr, pipeOpened, relay, spawned, buildResult, stderr>>

\* tokio::spawn(relay); Ok(()) and build's Ok(Self {..})
ProxySpawn ==
    /\ alive /\ pc = <<"proxy", "spawn">>
    /\ relay' = "running"
    /\ spawned' = spawned + 1
    /\ buildResult' = "Ok"
    /\ pc' = <<"main", "check">>
    /\ UNCHANGED <<alive, exitCode, mainVars, ops, buildVars, attempts, sinceOpen,
                   lastGap, opened, openErr, pipeOpened, stderr>>

\* mutant: a relay error ends the process
RelayEnd_fatal ==
    /\ alive /\ relay = "running"
    /\ \E r \in {"ended", "error"} :
         /\ relay' = r
         /\ stderr' = IF r = "error" THEN stderr \cup {"Terminal Error"} ELSE stderr
         /\ IF r = "error" THEN Exit(ExitFailure) ELSE UNCHANGED <<pc, alive, exitCode>>
    /\ UNCHANGED <<mainVars, ops, buildVars, attempts,
                   sinceOpen, lastGap, opened, openErr, pipeOpened, spawned, buildResult>>

\* the detached relay task: copy_bidirectional returns
RelayEnd ==
    /\ alive /\ relay = "running"
    /\ \E r \in {"ended", "error"} :
         /\ relay' = r
         /\ stderr' = IF r = "error" THEN stderr \cup {"Terminal Error"} ELSE stderr
    /\ UNCHANGED <<pc, alive, exitCode, mainVars, ops, buildVars, attempts,
                   sinceOpen, lastGap, opened, openErr, pipeOpened, spawned, buildResult>>

Next ==
    \/ MainCheckEfi \/ MainCheckDisk \/ MainCallBuild \/ MainCheck
    \/ BuildConfig
    \/ CreateAlloc \/ CreateCall \/ CreateReturn \/ CreateAwait
    \/ IdentifyAlloc \/ IdentifyCall \/ IdentifyReturn \/ IdentifyAwait
    \/ StartAlloc \/ StartCall \/ StartReturn \/ StartAwait
    \/ ServiceCallback
    \/ ProxyOpen \/ Sleep \/ ProxySpawn \/ RelayEnd

Spec == Init /\ [][Next]_vars

\* ---------------------------------------------------------------- fairness
\* the steps of the one task that runs main, build and proxy_serial
OrchestratorStep ==
    \/ MainCheckEfi \/ MainCheckDisk \/ MainCallBuild \/ MainCheck
    \/ BuildConfig
    \/ CreateAlloc \/ CreateCall \/ CreateReturn \/ CreateAwait
    \/ IdentifyAlloc \/ IdentifyCall \/ IdentifyReturn \/ IdentifyAwait
    \/ StartAlloc \/ StartCall \/ StartReturn \/ StartAwait
    \/ ProxyOpen \/ Sleep \/ ProxySpawn

\* an open attempt that does not report "not ready"
ProxyOpenSettled == ProxyOpen /\ openErr' # NotReadyErr

\* the runtime keeps polling the task when it can run, the service invokes the
\* callback of every operation it started, and the pipe does not report "not
\* ready" for ever
FairSpec ==
    /\ Spec
    /\ WF_vars(OrchestratorStep)
    /\ WF_vars(ServiceCallback)
    /\ SF_vars(ProxyOpenSettled)

\* ------------------------------------------------ Hypervisor::build alone
\* build entered with any VM name and any list of canonical disk paths
BuildInit ==
    /\ pc = <<"build", "config">>
    /\ alive = TRUE
    /\ exitCode = 0
    /\ efi_is_file = TRUE
    /\ name \in Names
    /\ disk_paths \in SeqsUpTo(CanonPaths, MaxDisks)
    /\ disks = [k \in 1..Len(disk_paths) |-> TRUE]
    /\ diskIdx = Len(disk_paths) + 1
    /\ com1_pipe = ""
    /\ descriptor = NoDescriptor
    /\ ops = <<>>
    /\ cur = 0
    /\ syncRes = "none"
    /\ handle = FALSE
    /\ unique_id = FALSE
    /\ issued = [s \in Steps |-> 0]
    /\ recvd = [s \in Steps |-> <<>>]
    /\ syncRet = [s \in Steps |-> <<>>]
    /\ attempts = 0
    /\ sinceOpen = 0
    /\ lastGap = 0
    /\ opened = {}
    /\ openErr = 0
    /\ pipeOpened = ""
    /\ relay = "none"
    /\ spawned = 0
    /\ buildResult = "running"
    /\ stderr = {}

BuildNext ==
    \/ BuildConfig
    \/ CreateAlloc \/ CreateCall \/ CreateReturn \/ CreateAwait
    \/ IdentifyAlloc \/ IdentifyCall \/ IdentifyReturn \/ IdentifyAwait
    \/ StartAlloc \/ StartCall \/ StartReturn \/ StartAwait
    \/ ServiceCallback
    \/ ProxyOpen \/ Sleep \/ ProxySpawn \/ RelayEnd

BuildSpec == BuildInit /\ [][BuildNext]_vars

\* ------------------------------------------------- Operation Bridge harness
\* async_operation driven directly: up to MaxOps operations are created, handed
\* to the service, completed by _handler and awaited, in every interleaving.
BridgeInit ==
    /\ pc = <<"bridge", "run">>
    /\ alive = TRUE
    /\ exitCode = 0
    /\ efi_is_file = TRUE
    /\ disks = <<>>
    /\ diskIdx = 1
    /\ name = ""
    /\ disk_paths = <<>>
    /\ com1_pipe = ""
    /\ descriptor = NoDescriptor
    /\ pipeOpened = ""
    /\ ops = <<>>
    /\ cur = 0
    /\ syncRes = "none"
    /\ handle = FALSE
    /\ unique_id = FALSE
    /\ issued = [s \in Steps |-> 0]
    /\ recvd = [s \in Steps |-> <<>>]
    /\ syncRet = [s \in Steps |-> <<>>]
    /\ attempts = 0
    /\ sinceOpen = 0
    /\ lastGap = 0
    /\ opened = {}
    /\ openErr = 0
    /\ relay = "none"
    /\ spawned = 0
    /\ buildResult = "running"
    /\ stderr = {}

nonOps == <<pc, alive, exitCode, mainVars, buildVars, proxyVars, buildResult, stderr>>

\* async_operation(): a new channel and, unless create_operation fails, a handle
BridgeCreate ==
    /\ pc = <<"bridge", "run">>
    /\ Len(ops) < MaxOps
    /\ \E r \in {"Ok"} \cup ErrCodes : ops' = Append(ops, NewOp("create", r))
    /\ UNCHANGED nonOps

\* the handle is passed to a service primitive, which starts the operation
BridgeSubmit(i) ==
    /\ pc = <<"bridge", "run">>
    /\ ops[i].handle /\ ops[i].svc = "idle"
    /\ ops' = [ops EXCEPT ![i].svc = "pending"]
    /\ UNCHANGED nonOps

\* the awaitable of operation i is polled and is ready
BridgeAwait(i) ==
    /\ pc = <<"bridge", "run">>
    /\ Resolved(ops[i])
    /\ \E out \in AwaitValues(ops[i]) : ops' = Receive(ops, i, out)
    /\ UNCHANGED nonOps

BridgeNext ==
    \/ BridgeCreate
    \/ \E i \in 1..Len(ops) : BridgeSubmit(i)
    \/ \E i \in 1..Len(ops) : BridgeAwait(i)
    \/ ServiceCallback

BridgeSpec == BridgeInit /\ [][BridgeNext]_vars

\* ------------------------------------------------------ vocabulary of claims
OpIds == 1..Len(ops)
StepOps(s) == {i \in OpIds : ops[i].step = s}
Pending == {i \in OpIds : ops[i].svc = "pending"}
\* the orchestrator's .await of step s returned exactly one outcome, published
\* by the one callback of that step's operation
Delivered(s) ==
    /\ Len(recvd[s]) = 1
    /\ StepOps(s) # {}
    /\ \A i \in StepOps(s) :
         ops[i].callbacks = 1 /\ ops[i].rx = "received" /\ ops[i].got = recvd[s]
RecvOk(s) == Len(recvd[s]) = 1 /\ recvd[s][1].code = "Success"
RecvErr(s) == \E k \in 1..Len(recvd[s]) : recvd[s][k].code # "Success"
SyncErr(s) == \E k \in 1..Len(syncRet[s]) : syncRet[s][k] # "Ok"
AllocErr(s) == \E i \in StepOps(s) : ~ops[i].handle
StepFailed(s) == RecvErr(s) \/ SyncErr(s) \/ AllocErr(s)
BuildReturned == buildResult # "running"
BuildErr == buildResult \in ErrCodes
AtOrAfterMainCheck == pc \in {<<"main", "check">>, <<"exit", "done">>}
ExitedWithFailure == ~alive /\ exitCode = ExitFailure
FatalOpenErrs == OpenErrs \ {NotReadyErr}

\* C1: create -> identify -> start are totally ordered: the primitive of a step
\* is called only after the previous step's outcome was published by its callback
\* and received by the orchestrator, and never are two requests outstanding.
C1_StepsTotallyOrdered ==
    /\ issued["identify"] > 0 => Delivered("create")
    /\ issued["start"] > 0 => Delivered("identify")
    /\ issued["start"] > 0 => issued["identify"] > 0
    /\ issued["identify"] > 0 => issued["create"] > 0
    /\ Cardinality({s \in Steps : issued[s] > 0 /\ recvd[s] = <<>>}) <= 1
    /\ Cardinality(Pending) <= 1

C1_Witness ==
    /\ issued["start"] = 1 /\ Delivered("start")
    /\ Delivered("create") /\ Delivered("identify")

\* C2: with every operation completed once by the service callback, in any order
\* relative to each other and to the awaiting code, each operation's awaitable
\* receives exactly the outcome of its own operation, once: none lost, none
\* duplicated, none delivered to another operation's awaitable.
C2_ExactlyOneOutcomePerOperation ==
    \A i \in OpIds :
        /\ ops[i].callbacks <= 1
        /\ Len(ops[i].got) <= 1
        /\ ops[i].handle => Len(ops[i].slot) + Len(ops[i].got) = ops[i].callbacks
        /\ \A k \in 1..Len(ops[i].slot) : <<ops[i].slot[k]>> = ops[i].result
        /\ ops[i].got # <<>> => ops[i].got = ops[i].result
        /\ (ops[i].rx = "received") = (Len(ops[i].got) = 1)

\* three operations, the later two completed and received while the first is
\* still pending, with different outcomes
C2_Witness ==
    /\ Len(ops) >= 3
    /\ ops[1].svc = "pending"
    /\ ops[2].rx = "received" /\ ops[3].rx = "received"
    /\ ops[2].got # ops[3].got

\* C3: every operation allocated by async_operation gets exactly one callback,
\* which closes its handle once and consumes its sender once, on every path by
\* which build ends (once build has returned and no callback is still due).
C3_EveryOperationReleasedOnce ==
    (BuildReturned /\ Pending = {}) =>
        \A i \in OpIds : ops[i].handle =>
            ops[i].callbacks = 1 /\ ops[i].closed = 1 /\ ops[i].consumed = 1

\* C4: when the create step's asynchronous outcome is a failure, build returns an
\* error; the identity query and the start request are never issued and the
\* console pipe is never opened.
C4_CreateFailureStopsLaunch ==
    RecvErr("create") =>
        /\ BuildErr /\ buildResult = recvd["create"][1].code
        /\ AtOrAfterMainCheck
        /\ issued["identify"] = 0 /\ issued["start"] = 0
        /\ StepOps("identify") = {} /\ StepOps("start") = {}
        /\ attempts = 0 /\ spawned = 0

C4_Witness == RecvErr("create") /\ ExitedWithFailure

\* C5: when create succeeded and the identity query failed (failure outcome, or
\* the query call itself returned an error), the launch result is an error and
\* start_compute_system is never called.
C5_IdentifyFailureSkipsStart ==
    (RecvOk("create") /\ (RecvErr("identify") \/ SyncErr("identify"))) =>
        /\ BuildErr
        /\ AtOrAfterMainCheck
        /\ issued["start"] = 0 /\ StepOps("start") = {}

C5_Witness == RecvOk("create") /\ RecvErr("identify") /\ ExitedWithFailure

\* C6: no step is retried: each primitive is called at most once, and a failure
\* reported by the service at any step ends the launch with an error, no later
\* step being issued.
C6_NoRetry ==
    /\ \A s \in Steps : issued[s] <= 1 /\ Cardinality(StepOps(s)) <= 1
    /\ \A s \in Steps : (RecvErr(s) \/ SyncErr(s)) =>
          /\ BuildErr /\ AtOrAfterMainCheck
          /\ attempts = 0
          /\ s = "create" => issued["identify"] = 0 /\ issued["start"] = 0
          /\ s = "identify" => issued["start"] = 0

C6_Witness ==
    /\ RecvOk("create") /\ RecvOk("identify") /\ RecvErr("start")
    /\ ExitedWithFailure

\* C7: while every open attempt has reported os error 231, proxy_serial stays in
\* its loop, sleeping exactly 50 ms between consecutive attempts: no result, no
\* relay, no exit, and the next attempt is always due.
C7_NotReadyRetriesForever ==
    (attempts > 0 /\ opened = {NotReadyErr}) =>
        /\ alive /\ buildResult = "running"
        /\ relay = "none" /\ spawned = 0
        /\ pc \in {<<"proxy", "sleep">>, <<"proxy", "open">>}
        /\ pc = <<"proxy", "sleep">> => sinceOpen = 0 /\ ENABLED Sleep
        /\ pc = <<"proxy", "open">> => sinceOpen = SleepMs /\ ENABLED ProxyOpen
        /\ lastGap \in {0, SleepMs}

C7_Witness ==
    /\ attempts = MaxAttempts /\ opened = {NotReadyErr}
    /\ lastGap = SleepMs
    /\ pc = <<"proxy", "open">>

\* C8: an open failure other than os error 231 ends proxy_serial at that attempt
\* (no later attempt, no relay) and build returns Err(ResultCode::Unexpected).
C8_OtherOpenFailureIsFatal ==
    (opened \cap FatalOpenErrs # {}) =>
        /\ openErr \in FatalOpenErrs
        /\ Cardinality(opened \cap FatalOpenErrs) = 1
        /\ 0 \notin opened
        /\ relay = "none" /\ spawned = 0
        /\ buildResult = "Unexpected"
        /\ AtOrAfterMainCheck
        /\ "Failed to open terminal" \in stderr

C8_Witness ==
    /\ NotReadyErr \in opened /\ openErr \in FatalOpenErrs
    /\ ExitedWithFailure

\* C9: the console pipe is opened only after the start outcome was received as
\* success, and never in an execution in which a step failed.
C9_ProxyOnlyAfterStartSuccess ==
    (attempts > 0 \/ pc[1] = "proxy" \/ spawned > 0) =>
        /\ \A s \in Steps : Delivered(s) /\ RecvOk(s) /\ ~StepFailed(s)
        /\ unique_id /\ handle

C9_Witness == attempts > 0 /\ relay = "running"

\* C10: the process exits with code 1 when validation of the file arguments
\* fails or build returns an error; after build returned Ok it never exits.
C10_ExitCodes ==
    /\ ((~efi_is_file \/ \E i \in 1..Len(disks) : ~disks[i])
           /\ pc[1] # "main") => (ExitedWithFailure /\ ops = <<>>)
    /\ (BuildErr /\ pc # <<"main", "check">>) => ExitedWithFailure
    /\ buildResult = "Ok" =>
          (alive /\ pc \in {<<"main", "check">>, <<"main", "sleep">>})
    /\ ~alive => exitCode # ExitReturn

C10_Witness ==
    /\ buildResult = "Ok" /\ pc = <<"main", "sleep">>
    /\ relay \in {"ended", "error"}


\* the steps that follow step s in build
Later(s) ==
    CASE s = "create" -> {"identify", "start"}
      [] s = "identify" -> {"start"}
      [] s = "start" -> {}

\* C11: when create_operation fails at a step, build returns that result code
\* at once: the primitive of the step is not called, no later step is issued,
\* the console pipe is not opened.
C11_AllocFailureReturnsAtOnce ==
    \A s \in Steps : \A i \in StepOps(s) : ~ops[i].handle =>
        /\ ops[i].alloc \in ErrCodes
        /\ buildResult = ops[i].alloc
        /\ AtOrAfterMainCheck
        /\ issued[s] = 0
        /\ ops[i].svc = "idle" /\ ops[i].callbacks = 0
        /\ \A l \in Later(s) : issued[l] = 0 /\ StepOps(l) = {}
        /\ attempts = 0 /\ spawned = 0

C11_Witness ==
    /\ RecvOk("create") /\ RecvOk("identify")
    /\ AllocErr("start")
    /\ ExitedWithFailure

\* C12: the pipe proxy_serial opens is the named pipe the descriptor declares
\* for COM port 0, and it is \\.\pipe\vm_<name>_com1, for every VM name.
C12_ProxyOpensDeclaredPipe ==
    attempts > 0 =>
        /\ DOMAIN descriptor.com_ports = {0}
        /\ pipeOpened = descriptor.com_ports[0].named_pipe
        /\ pipeOpened = "\\\\.\\pipe\\vm_" \o name \o "_com1"
        /\ descriptor.owner = name

C12_Witness ==
    /\ attempts > 0 /\ name = "a"
    /\ pipeOpened = "\\\\.\\pipe\\vm_a_com1"
    /\ relay = "running"

\* the descriptor has been built
DescriptorBuilt == com1_pipe # ""
\* the SCSI attachments of the descriptor: <<controller key, attachment index>>
AttachmentSlots ==
    UNION {{<<k, a>> : a \in DOMAIN descriptor.scsi[k].attachments} :
              k \in DOMAIN descriptor.scsi}
AttachmentAt(sl) == descriptor.scsi[sl[1]].attachments[sl[2]]
\* s is path d after to_string_lossy: the same units, U+FFFD for each invalid one
IsLossyOf(s, d) ==
    /\ DOMAIN s = DOMAIN d
    /\ \A k \in DOMAIN d : s[k] = (IF d[k] = Surrogate THEN Replacement ELSE d[k])
ValidUnicode(d) == \A k \in DOMAIN d : d[k] # Surrogate

\* C13 (as claimed): n disks give exactly n SCSI attachments whose attachment
\* indices are 0..n-1, none repeated, the i-th referencing the i-th disk path
\* unmodified.
C13_AttachmentIndicesContiguous ==
    DescriptorBuilt =>
        LET n == Len(disk_paths) IN
        /\ Cardinality(AttachmentSlots) = n
        /\ \A sl \in AttachmentSlots : sl[2] \in 0..(n - 1)
        /\ \A j \in 0..(n - 1) :
             /\ Cardinality({sl \in AttachmentSlots : sl[2] = j}) = 1
             /\ \A sl \in AttachmentSlots :
                  sl[2] = j => AttachmentAt(sl).path = disk_paths[j + 1]

\* C13 (amended): n disks give exactly n SCSI controllers keyed disk-0 ..
\* disk-(n-1), each with exactly one attachment, at index 0; the attachment of
\* disk-i references the i-th disk path after to_string_lossy, which is the path
\* itself when the path is valid Unicode.
C13_OneControllerPerDisk ==
    DescriptorBuilt =>
        LET n == Len(disk_paths) IN
        /\ Cardinality(DOMAIN descriptor.scsi) = n
        /\ Cardinality(AttachmentSlots) = n
        /\ \A j \in 0..(n - 1) :
             LET key == "disk-" \o ToString(j) IN
             /\ key \in DOMAIN descriptor.scsi
             /\ DOMAIN descriptor.scsi[key].attachments = {0}
             /\ AttachmentAt(<<key, 0>>).attachment_type = "VirtualDisk"
             /\ IsLossyOf(AttachmentAt(<<key, 0>>).path, disk_paths[j + 1])
             /\ ValidUnicode(disk_paths[j + 1]) =>
                    AttachmentAt(<<key, 0>>).path = disk_paths[j + 1]

\* two different disks, the second one with a path that is no valid Unicode
C13_Witness ==
    /\ DescriptorBuilt
    /\ Len(disk_paths) = 2
    /\ ValidUnicode(disk_paths[1]) /\ ~ValidUnicode(disk_paths[2])
    /\ Cardinality(AttachmentSlots) = 2

\* C14: in every interleaving of the callback with the orchestrator the sender
\* is never dropped, only consumed by the callback; an awaitable never resolves
\* before its callback ran, resolves with the outcome the callback published,
\* and the orchestrator resumes at most once per operation.
C14_AwaitResolvesWithPublishedOutcome ==
    /\ \A i \in OpIds :
         /\ ops[i].tx # "dropped"
         /\ (ops[i].tx = "consumed") = (ops[i].callbacks = 1)
         /\ ops[i].consumed = ops[i].callbacks
         /\ ops[i].callbacks = 0 => ~Resolved(ops[i])
         /\ Len(ops[i].got) <= 1
         /\ ops[i].rx = "received" =>
              (ops[i].callbacks = 1 /\ ops[i].got = ops[i].result)
    /\ \A s \in Steps :
         /\ Len(recvd[s]) <= 1
         /\ recvd[s] # <<>> => \E i \in StepOps(s) : ops[i].got = recvd[s]

\* the callback of the identity query ran before the query call returned to
\* build, after a create whose outcome was awaited and received
C14_Witness ==
    /\ RecvOk("create")
    /\ pc = <<"identify", "ret">>
    /\ ops[cur].callbacks = 1 /\ Len(ops[cur].slot) = 1

\* C15: a callback that runs after the receiver of its channel is gone still
\* retrieves the result and closes the operation handle; the failed send stores
\* nothing, raises nothing, and leaves the orchestrator, the launch result and
\* the process as they were.
C15_CallbackAfterReceiverGone ==
    [][\A i \in OpIds :
         (ops[i].rx = "dropped" /\ ops[i].svc = "pending" /\ ops'[i].svc # "pending") =>
            /\ ops'[i].callbacks = 1
            /\ ops'[i].result # <<>>
            /\ ops'[i].closed = 1
            /\ ops'[i].consumed = 1
            /\ ops'[i].slot = <<>> /\ ops'[i].got = <<>>
            /\ ops'[i].rx = "dropped"
            /\ alive' /\ exitCode' = exitCode
            /\ pc' = pc
            /\ buildResult' = buildResult
            /\ stderr' = stderr]_vars

\* build returned the synchronous error of a primitive, and afterwards the
\* callback of that operation ran
C15_Witness ==
    \E i \in OpIds :
        /\ ops[i].handle /\ ops[i].rx = "dropped"
        /\ ops[i].callbacks = 1 /\ ops[i].closed = 1
        /\ ops[i].slot = <<>>
        /\ SyncErr(ops[i].step)
        /\ BuildErr /\ alive

\* C16: a failure outcome of create or start makes build return exactly that
\* result code, decodable payload or not; and no failure's diagnostic payload is
\* dropped unreported when it decodes, the identity query's included.
C16_NoDiagnosticDiscarded ==
    /\ \A s \in {"create", "start"} :
         RecvErr(s) => (BuildErr /\ buildResult = recvd[s][1].code)
    /\ \A s \in Steps :
         (RecvErr(s) /\ Decodes(recvd[s][1].resp)) => "diagnostic" \in stderr

\* the identity query succeeded with a response that is no JSON document or has
\* no string RuntimeId
IdentityUnparsed ==
    /\ RecvOk("identify")
    /\ recvd["identify"][1].resp # "json_id"

\* C17: a successful identity query whose response cannot be parsed is a fatal
\* launch failure: start is never issued and the process ends with exit code 1,
\* like any other launch failure.
C17_UnparsedIdentityIsLaunchFailure ==
    IdentityUnparsed =>
        /\ issued["start"] = 0 /\ StepOps("start") = {}
        /\ attempts = 0
        /\ (alive /\ BuildErr /\ pc = <<"main", "check">>) \/ ExitedWithFailure

RelayOver == relay \in {"ended", "error"}
\* the relay leaves the orchestrator and the process alone
RelayDetached ==
    /\ relay # "none" =>
         /\ buildResult = "Ok"
         /\ spawned = 1
         /\ alive
         /\ pc \in {<<"main", "check">>, <<"main", "sleep">>}
    /\ (relay # "none" /\ pc = <<"main", "check">>) => ENABLED MainCheck

\* C18 (as claimed): a relay error or end-of-stream is reported, and is not
\* fatal: build's result stays Ok, the process lives on, the orchestrator is
\* neither waiting for the relay nor unwound by it.
C18_RelayEndReported ==
    /\ RelayOver => "Terminal Error" \in stderr
    /\ RelayDetached

\* C18 (amended): a relay error is reported, an end-of-stream ends the relay
\* without a message; neither is fatal.
C18_RelayEndNotFatal ==
    /\ (relay = "error") = ("Terminal Error" \in stderr)
    /\ RelayDetached

\* the relay failed while main was still returning from build, and main went on
C18_Witness ==
    /\ relay = "error" /\ "Terminal Error" \in stderr
    /\ pc = <<"main", "sleep">> /\ alive

\* C19: build returns Ok only after, in this order, create succeeded, the
\* identity query succeeded with a runtime id, start succeeded, the pipe was
\* opened and the relay was spawned; the relay is spawned at most once and never
\* when build returns an error.
C19_OkOnlyAfterFullSequence ==
    /\ buildResult = "Ok" =>
         /\ \A s \in Steps : Delivered(s) /\ RecvOk(s)
         /\ recvd["identify"][1].resp = "json_id" /\ unique_id
         /\ openErr = 0 /\ 0 \in opened
         /\ spawned = 1 /\ relay # "none"
    /\ issued["identify"] > 0 => RecvOk("create")
    /\ issued["start"] > 0 => (RecvOk("identify") /\ recvd["identify"][1].resp = "json_id")
    /\ attempts > 0 => RecvOk("start")
    /\ spawned > 0 => (openErr = 0 /\ buildResult = "Ok")
    /\ spawned <= 1
    /\ (BuildErr \/ buildResult = "running") => (spawned = 0 /\ relay = "none")

\* Ok after two not-ready retries of the pipe
C19_Witness ==
    /\ buildResult = "Ok" /\ spawned = 1
    /\ NotReadyErr \in opened
    /\ pc = <<"main", "check">>

BuildCalled == pc = <<"build", "config">>
BuildDone == BuildErr \/ (buildResult = "Ok" /\ spawned = 1)
\* build is suspended on an operation whose callback has not published yet
Suspended == alive /\ pc[2] = "await" /\ ~Resolved(ops[cur])

\* C20: with every started operation called back and the pipe not reporting
\* "not ready" for ever, build terminates: it returns an error, or Ok with the
\* relay spawned.  And while the callback of the awaited operation has not run,
\* the orchestrator takes no step: no further request, no result, no message.
C20_BuildTerminates ==
    /\ BuildCalled ~> BuildDone
    /\ [][Suspended =>
            /\ pc' = pc /\ alive'
            /\ issued' = issued
            /\ Len(ops') = Len(ops)
            /\ buildResult' = buildResult
            /\ stderr' = stderr]_vars
====
